---- MODULE Spec2Model ----
(***************************************************************************)
(* Remi card: a Lovelace card (LitElement) that binds a device id to six   *)
(* Home Assistant entities plus alarm entities, renders gated sections,    *)
(* and issues service calls on user interaction.                           *)
(*                                                                         *)
(* Model of RemiCard (card with alarm clocks and localisation) under the   *)
(* Lit update cycle: property writes mark the property changed and request *)
(* an update; one update runs shouldUpdate, render and updated.            *)
(*                                                                         *)
(* Strings of the source are TLA+ strings.  Two characters of the status   *)
(* line that are not ASCII are written in ASCII: the degree sign of        *)
(* "<n>(deg)C" is dropped ("21C") and the bullet separator is " * ".       *)
(***************************************************************************)
EXTENDS Integers, Sequences, FiniteSets, TLC

VARIABLES
    hass,          \* RemiCard.hass: the host snapshot, or Undefined
    _config,       \* RemiCard._config: the accepted configuration, or Undefined
    _entities,     \* RemiCard._entities: resolved identifiers and the alarm list
    changedProps,  \* Lit's changed-property set of the pending update
    oldHass,       \* changedProps.get('hass'): hass before the first write of the batch
    pending,       \* an update has been requested and has not run yet
    rendered,      \* what the last render() produced (the card's DOM)
    slider,        \* the brightness <input type=range>: its DOM value and current gesture
    calls,         \* hass.callService calls issued by the last step
    events,        \* DOM events dispatched by the last step
    editor,        \* RemiCardEditor: its _config and hass properties
    lastOp         \* the last operation and its outcome

vars == <<hass, _config, _entities, changedProps, oldHass, pending, rendered,
          slider, calls, events, editor, lastOp>>

-----------------------------------------------------------------------------
(* JavaScript values *)

\* undefined (an unset property, a missing map entry)
Undefined == [undefined |-> TRUE]

\* null, as an entity identifier that has not been resolved
Null == "<null>"

\* html`` and '': a template that renders nothing
Nothing == [nothing |-> TRUE]

Has(obj, key) == key \in DOMAIN obj

\* String.prototype.startsWith / endsWith
StartsWith(s, p) == Len(s) >= Len(p) /\ SubSeq(s, 1, Len(p)) = p

EndsWith(s, p) == Len(s) >= Len(p) /\ SubSeq(s, Len(s) - Len(p) + 1, Len(s)) = p

UpperCase == "ABCDEFGHIJKLMNOPQRSTUVWXYZ"

LowerCase == "abcdefghijklmnopqrstuvwxyz"

\* one character of String.prototype.toLowerCase
LowerChar(c) ==
    IF \E i \in 1..Len(UpperCase) : SubSeq(UpperCase, i, i) = c
    THEN LET i == CHOOSE j \in 1..Len(UpperCase) : SubSeq(UpperCase, j, j) = c
         IN  SubSeq(LowerCase, i, i)
    ELSE c

RECURSIVE ToLowerCase(_)
\* String.prototype.toLowerCase
ToLowerCase(s) ==
    IF Len(s) = 0 THEN ""
    ELSE LowerChar(SubSeq(s, 1, 1)) \o ToLowerCase(SubSeq(s, 2, Len(s)))

\* Number.prototype.toString of a non-negative integer
NumToString(n) == ToString(n)

DigitChars == "0123456789"

DigitValue(c) == (CHOOSE i \in 1..10 : SubSeq(DigitChars, i, i) = c) - 1

IsDigit(c) == \E i \in 1..10 : SubSeq(DigitChars, i, i) = c

RECURSIVE ParseDigits(_, _)
ParseDigits(s, acc) ==
    IF Len(s) = 0 \/ ~IsDigit(SubSeq(s, 1, 1)) THEN acc
    ELSE ParseDigits(SubSeq(s, 2, Len(s)), acc * 10 + DigitValue(SubSeq(s, 1, 1)))

\* parseInt of the value of a range input (a string of decimal digits)
ParseInt(s) == ParseDigits(s, 0)

\* mutant of RoundPercent: Math.floor in place of Math.round
RoundPercentFloor(brightness) == (brightness * 100) \div 255

\* Math.round((brightness / 255) * 100) for an integer brightness >= 0.
\* The quotient is never half-way between two integers (510 does not divide
\* 200 * b - 255 * odd), so rounding to nearest is floor(x + 1/2) exactly.
RoundPercent(brightness) == (brightness * 200 + 255) \div 510

RECURSIVE Join(_, _)
\* Array.prototype.join
Join(seq, sep) ==
    IF Len(seq) = 0 THEN ""
    ELSE IF Len(seq) = 1 THEN seq[1]
    ELSE seq[1] \o sep \o Join(Tail(seq), sep)

-----------------------------------------------------------------------------
(* Configuration: RemiCardConfig is a function from the fields it holds to  *)
(* their values; a field the host omitted is not in its domain.             *)

ShowFlags == {"show_controls", "show_face_selector", "show_temperature_graph",
              "show_connectivity", "show_alarm_clocks"}

DefaultHours == 24

\* the defaults that setConfig spreads under the supplied configuration
ConfigDefaults ==
    [show_controls |-> TRUE, show_face_selector |-> TRUE,
     show_temperature_graph |-> TRUE, show_connectivity |-> TRUE,
     show_alarm_clocks |-> TRUE, hours_to_show |-> DefaultHours]

\* mutant of MissingDeviceId: config.device_id === undefined, an empty id passes
MissingDeviceIdOnlyAbsent(config) == ~Has(config, "device_id")

\* !config.device_id
MissingDeviceId(config) == ~Has(config, "device_id") \/ config["device_id"] = ""

\* mutant of MergeConfig: { ...config, ...defaults }, the defaults win
MergeConfigDefaultsWin(config) == ConfigDefaults @@ config

\* { ...defaults, ...config }: a supplied field overrides its default
MergeConfig(config) == config @@ ConfigDefaults

\* this._config.device_name || this._config.device_id
DeviceName(config) ==
    IF Has(config, "device_name") /\ config["device_name"] # ""
    THEN config["device_name"]
    ELSE config["device_id"]

-----------------------------------------------------------------------------
(* Entity resolution *)

\* the initial value of RemiCard._entities
InitialEntities ==
    [face |-> Null, faceSelect |-> Null, light |-> Null, temperature |-> Null,
     connectivity |-> Null, rssi |-> Null, alarms |-> << >>]

\* the identifiers of the host store in Object.keys order
KeyOrder ==
    << "sensor.remi_a_face", "select.remi_a_face", "light.remi_a_night_light",
       "sensor.remi_a_temperature", "binary_sensor.remi_a_connectivity",
       "sensor.remi_a_rssi", "light.remi_b_night_light",
       "select.remi_b_face", "time.a_1_time", "time.a_2_time", "time.a_1_date",
       "time.b_1_time", "time.a_time", "time.ab_1_time" >>

\* Object.keys(this.hass.states)
Keys(states) == SelectSeq(KeyOrder, LAMBDA id : id \in DOMAIN states)

\* mutant of IsAlarmOf: the device name is not lower-cased
IsAlarmOfCaseSensitive(entityId, deviceName) ==
    /\ StartsWith(entityId, "time." \o deviceName \o "_")
    /\ EndsWith(entityId, "_time")

\* the alarm filter of _updateEntities
IsAlarmOf(entityId, deviceName) ==
    /\ StartsWith(entityId, "time." \o ToLowerCase(deviceName) \o "_")
    /\ EndsWith(entityId, "_time")

FindAlarms(states, deviceName) ==
    SelectSeq(Keys(states), LAMBDA id : IsAlarmOf(id, deviceName))

\* mutant of ResolveEntities: the rssi identifier is built from the device name
ResolveEntitiesRssiByName(config, snapshot) ==
    LET deviceId == config["device_id"]
        deviceName == DeviceName(config)
    IN  [face |-> "sensor.remi_" \o deviceId \o "_face",
         faceSelect |-> "select.remi_" \o deviceId \o "_face",
         light |-> "light.remi_" \o deviceId \o "_night_light",
         temperature |-> "sensor.remi_" \o deviceId \o "_temperature",
         connectivity |-> "binary_sensor.remi_" \o deviceId \o "_connectivity",
         rssi |-> "sensor.remi_" \o deviceName \o "_rssi",
         alarms |-> FindAlarms(snapshot.states, deviceName)]

\* the object literal _updateEntities assigns
ResolveEntities(config, snapshot) ==
    LET deviceId == config["device_id"]
        deviceName == DeviceName(config)
    IN  [face |-> "sensor.remi_" \o deviceId \o "_face",
         faceSelect |-> "select.remi_" \o deviceId \o "_face",
         light |-> "light.remi_" \o deviceId \o "_night_light",
         temperature |-> "sensor.remi_" \o deviceId \o "_temperature",
         connectivity |-> "binary_sensor.remi_" \o deviceId \o "_connectivity",
         rssi |-> "sensor.remi_" \o deviceId \o "_rssi",
         alarms |-> FindAlarms(snapshot.states, deviceName)]

\* mutant of UpdateEntities: identifiers already resolved are kept
UpdateEntitiesOnce(config, snapshot, entities) ==
    IF snapshot = Undefined \/ config = Undefined \/ entities.light # Null THEN entities
    ELSE ResolveEntities(config, snapshot)

\* _updateEntities: the value of _entities after the call
UpdateEntities(config, snapshot, entities) ==
    IF snapshot = Undefined \/ config = Undefined THEN entities
    ELSE ResolveEntities(config, snapshot)

\* whether _updateEntities assigns _entities (a write Lit records as a change)
UpdateEntitiesAssigns(config, snapshot) ==
    snapshot # Undefined /\ config # Undefined

\* this.hass.states[entityId], with an explicit snapshot
StateOf(snapshot, entityId) ==
    IF entityId \in DOMAIN snapshot.states THEN snapshot.states[entityId]
    ELSE Undefined

\* _getState
GetState(snapshot, entityId) ==
    IF entityId = Null \/ snapshot = Undefined THEN Undefined
    ELSE StateOf(snapshot, entityId)

HasAttr(entity, name) == entity # Undefined /\ name \in DOMAIN entity.attributes

-----------------------------------------------------------------------------
(* Localisation and face images *)

\* localize(key, lang): the label of a translation key
Localize(key, lang) == lang \o ":" \o key

\* localizeFace(face, lang)
LocalizeFace(face, lang) == Localize("face." \o face, lang)

\* localizeCommon(key, lang)
LocalizeCommon(key, lang) == Localize("common." \o key, lang)

\* _getLanguage: snapshots of the model carry no locale, so the default applies
GetLanguage(snapshot) == "en"

\* the five faces of the selector, in the order of its buttons
FaceStates == << "sleepyFace", "semiAwakeFace", "awakeFace", "smilyFace", "blankFace" >>

\* FACE_ICONS
FaceIcons ==
    [sleepyFace |-> "face_sleepy.png", awakeFace |-> "face_awake.png",
     semiAwakeFace |-> "face_semi_awake.png", smilyFace |-> "face_smily.png",
     blankFace |-> "face_blank.png"]

\* the members an object literal inherits from Object.prototype
ObjectPrototypeKeys ==
    {"constructor", "toString", "toLocaleString", "valueOf", "hasOwnProperty",
     "isPrototypeOf", "propertyIsEnumerable", "__proto__"}

\* FACE_ICONS[faceState] is not undefined: an own property or an inherited member
FaceIconsHas(faceState) ==
    faceState \in DOMAIN FaceIcons \/ faceState \in ObjectPrototypeKeys

\* FACE_ICONS[faceState] where it is defined; an inherited member is a function
\* or an object, written here by its name
FaceIconsLookup(faceState) ==
    IF faceState \in DOMAIN FaceIcons THEN FaceIcons[faceState]
    ELSE "Object.prototype." \o faceState

\* getFaceIcon: every inherited member is truthy, so it is returned as the icon
GetFaceIcon(faceState) ==
    IF FaceIconsHas(faceState) THEN FaceIconsLookup(faceState)
    ELSE FaceIcons["blankFace"]

-----------------------------------------------------------------------------
(* Rendering.  A section is Nothing or a record of what it displays. *)

\* _getFaceState: Null when the face entity is missing or unavailable
GetFaceState(snapshot, entities) ==
    LET faceEntity == GetState(snapshot, entities.face)
    IN  IF faceEntity = Undefined \/ faceEntity.state = "unavailable" THEN Null
        ELSE faceEntity.state

\* the brightness part of the status line of _renderHeader
HeaderLightText(lightState, lang) ==
    IF lightState # Undefined /\ lightState.state = "on"
    THEN IF HasAttr(lightState, "brightness")
         THEN " * " \o NumToString(RoundPercent(lightState.attributes["brightness"])) \o "%"
         ELSE ""
    ELSE " * " \o LocalizeCommon("off", lang)

\* _renderHeader
RenderHeader(config, snapshot, entities) ==
    LET faceState == GetFaceState(snapshot, entities)
        lightState == GetState(snapshot, entities.light)
        tempState == GetState(snapshot, entities.temperature)
        lang == GetLanguage(snapshot)
        known == faceState # Null /\ faceState # ""
        faceName == IF known THEN LocalizeFace(faceState, lang)
                    ELSE LocalizeCommon("unknown", lang)
        tempText == IF tempState # Undefined /\ tempState.state # "unavailable"
                    THEN tempState.state \o "C" ELSE ""
    IN  [faceImage |-> IF known THEN GetFaceIcon(faceState) ELSE GetFaceIcon("blankFace"),
         faceName |-> faceName,
         title |-> LocalizeCommon("remi", lang) \o " " \o DeviceName(config),
         status |-> tempText \o " * " \o faceName \o HeaderLightText(lightState, lang),
         lightOn |-> lightState # Undefined /\ lightState.state = "on"]

\* currentBrightness of _renderLightControls
CurrentBrightness(lightState) ==
    IF HasAttr(lightState, "brightness") /\ lightState.attributes["brightness"] # 0
    THEN RoundPercent(lightState.attributes["brightness"])
    ELSE 50

\* _renderLightControls
RenderLightControls(snapshot, entities) ==
    LET lightState == GetState(snapshot, entities.light)
        isOn == lightState # Undefined /\ lightState.state = "on"
        currentBrightness == CurrentBrightness(lightState)
    IN  [isOn |-> isOn,
         toggleArg |-> IF isOn THEN 0 ELSE currentBrightness,
         value |-> NumToString(currentBrightness),
         disabled |-> ~isOn,
         label |-> NumToString(currentBrightness) \o "%"]

\* _renderFaceSelector
RenderFaceSelector(snapshot, entities) ==
    LET faceSelectEntity == GetState(snapshot, entities.faceSelect)
    IN  IF faceSelectEntity = Undefined THEN Nothing
        ELSE [currentFace |-> faceSelectEntity.state, options |-> FaceStates]

\* mutant of RenderTemperatureGraph: the section is dropped when the entity is
\* missing or unavailable
RenderTemperatureGraphHidesUnavailable(config, snapshot, entities) ==
    LET tempEntity == entities.temperature
        lang == GetLanguage(snapshot)
        tempState == GetState(snapshot, tempEntity)
    IN  IF tempEntity = Null \/ tempState = Undefined \/ tempState.state = "unavailable"
        THEN Nothing
        ELSE [title |-> Localize("temperature.title", lang) \o " ("
                        \o NumToString(config["hours_to_show"]) \o "h)",
              moreInfo |-> tempEntity,
              state |-> tempState.state \o "C"]

\* _renderTemperatureGraph
RenderTemperatureGraph(config, snapshot, entities) ==
    LET tempEntity == entities.temperature
        lang == GetLanguage(snapshot)
        tempState == GetState(snapshot, tempEntity)
    IN  IF tempEntity = Null THEN Nothing
        ELSE [title |-> Localize("temperature.title", lang) \o " ("
                        \o NumToString(config["hours_to_show"]) \o "h)",
              moreInfo |-> tempEntity,
              state |-> (IF tempState # Undefined THEN tempState.state ELSE "") \o "C"]

\* mutant of RenderConnectivity: the 'unavailable' test on the connectivity entity is missing
RenderConnectivityNoUnavailable(snapshot, entities) ==
    LET connectivityState == GetState(snapshot, entities.connectivity)
        rssiState == GetState(snapshot, entities.rssi)
        lang == GetLanguage(snapshot)
    IN  IF connectivityState = Undefined
        THEN Nothing
        ELSE [status |-> Localize(IF connectivityState.state = "on"
                                  THEN "connectivity.connected"
                                  ELSE "connectivity.disconnected", lang),
              rssi |-> IF rssiState # Undefined /\ rssiState.state # "unavailable"
                       THEN [text |-> rssiState.state \o " dBm"]
                       ELSE Nothing]

\* _renderConnectivity
RenderConnectivity(snapshot, entities) ==
    LET connectivityState == GetState(snapshot, entities.connectivity)
        rssiState == GetState(snapshot, entities.rssi)
        lang == GetLanguage(snapshot)
    IN  IF connectivityState = Undefined \/ connectivityState.state = "unavailable"
        THEN Nothing
        ELSE [status |-> Localize(IF connectivityState.state = "on"
                                  THEN "connectivity.connected"
                                  ELSE "connectivity.disconnected", lang),
              rssi |-> IF rssiState # Undefined /\ rssiState.state # "unavailable"
                       THEN [text |-> rssiState.state \o " dBm"]
                       ELSE Nothing]

DaysShort == << "Mon", "Tue", "Wed", "Thu", "Fri", "Sat", "Sun" >>

\* mutant of DayLabel: the labels are read as if the week began on Sunday
DayLabelSundayFirst(i) == IF i \in 0..6 THEN DaysShort[((i + 6) % 7) + 1] ELSE ""

\* daysShort[i]; an index outside the array joins as the empty string
DayLabel(i) == IF i \in 0..6 THEN DaysShort[i + 1] ELSE ""

\* daysDisplay of an alarm row
DaysDisplay(alarmState, lang) ==
    LET selectedDaysIndices == IF HasAttr(alarmState, "days_indices")
                               THEN alarmState.attributes["days_indices"] ELSE << >>
    IN  IF Len(selectedDaysIndices) > 0
        THEN Join([k \in 1..Len(selectedDaysIndices) |-> DayLabel(selectedDaysIndices[k])], ", ")
        ELSE Localize("alarm.no_repeat", lang)

\* one element of the alarms.map of _renderAlarmClocks
RenderAlarmRow(snapshot, alarmId) ==
    LET alarmState == GetState(snapshot, alarmId)
        lang == GetLanguage(snapshot)
    IN  IF alarmState = Undefined \/ alarmState.state = "unavailable" THEN Nothing
        ELSE [moreInfo |-> alarmId,
              time |-> alarmState.state,
              name |-> IF HasAttr(alarmState, "name") /\ alarmState.attributes["name"] # ""
                       THEN alarmState.attributes["name"] ELSE "Alarm",
              icon |-> IF HasAttr(alarmState, "days") /\ Len(alarmState.attributes["days"]) > 0
                       THEN "mdi:calendar-repeat" ELSE "mdi:calendar-blank",
              days |-> DaysDisplay(alarmState, lang)]

\* _renderAlarmClocks
RenderAlarmClocks(snapshot, entities) ==
    IF Len(entities.alarms) = 0 THEN Nothing
    ELSE [title |-> Localize("alarm.title", GetLanguage(snapshot)),
          rows |-> [k \in 1..Len(entities.alarms) |->
                        RenderAlarmRow(snapshot, entities.alarms[k])]]

\* mutant of Render: the alarm section is gated by show_controls
RenderAlarmsByControls(config, snapshot, entities) ==
    IF config = Undefined \/ snapshot = Undefined THEN Nothing
    ELSE [header |-> RenderHeader(config, snapshot, entities),
          faceSelector |-> IF config["show_face_selector"]
                           THEN RenderFaceSelector(snapshot, entities) ELSE Nothing,
          lightControls |-> IF config["show_controls"]
                            THEN RenderLightControls(snapshot, entities) ELSE Nothing,
          alarmClocks |-> IF config["show_controls"]
                          THEN RenderAlarmClocks(snapshot, entities) ELSE Nothing,
          temperature |-> IF config["show_temperature_graph"]
                          THEN RenderTemperatureGraph(config, snapshot, entities) ELSE Nothing,
          connectivity |-> IF config["show_connectivity"]
                           THEN RenderConnectivity(snapshot, entities) ELSE Nothing]

\* render
Render(config, snapshot, entities) ==
    IF config = Undefined \/ snapshot = Undefined THEN Nothing
    ELSE [header |-> RenderHeader(config, snapshot, entities),
          faceSelector |-> IF config["show_face_selector"]
                           THEN RenderFaceSelector(snapshot, entities) ELSE Nothing,
          lightControls |-> IF config["show_controls"]
                            THEN RenderLightControls(snapshot, entities) ELSE Nothing,
          alarmClocks |-> IF config["show_alarm_clocks"]
                          THEN RenderAlarmClocks(snapshot, entities) ELSE Nothing,
          temperature |-> IF config["show_temperature_graph"]
                          THEN RenderTemperatureGraph(config, snapshot, entities) ELSE Nothing,
          connectivity |-> IF config["show_connectivity"]
                           THEN RenderConnectivity(snapshot, entities) ELSE Nothing]

-----------------------------------------------------------------------------
(* Service calls *)

\* mutant of HandleLightControl: the brightness === 0 branch is missing
HandleLightControlNoOff(entities, brightness) ==
    IF entities.light = Null THEN << >>
    ELSE << [domain |-> "light", service |-> "turn_on",
             data |-> [entity_id |-> entities.light, brightness_pct |-> brightness]] >>

\* _handleLightControl: the callService calls it makes
HandleLightControl(entities, brightness) ==
    IF entities.light = Null THEN << >>
    ELSE IF brightness = 0
    THEN << [domain |-> "light", service |-> "turn_off",
             data |-> [entity_id |-> entities.light]] >>
    ELSE << [domain |-> "light", service |-> "turn_on",
             data |-> [entity_id |-> entities.light, brightness_pct |-> brightness]] >>

\* _handleSliderRelease: reads the input's value and delegates
HandleSliderRelease(entities, value) ==
    LET brightness == ParseInt(value)
    IN  IF brightness = 0 THEN HandleLightControl(entities, 0)
        ELSE HandleLightControl(entities, brightness)

\* mutant of HandleFaceSelect: the call is addressed to the face sensor
HandleFaceSelectOnSensor(entities, face) ==
    IF entities.face = Null THEN << >>
    ELSE << [domain |-> "select", service |-> "select_option",
             data |-> [entity_id |-> entities.face, option |-> face]] >>

\* _handleFaceSelect: the callService calls it makes
HandleFaceSelect(entities, face) ==
    IF entities.faceSelect = Null THEN << >>
    ELSE << [domain |-> "select", service |-> "select_option",
             data |-> [entity_id |-> entities.faceSelect, option |-> face]] >>

\* mutant of HandleMoreInfo: the !entityId guard is missing
HandleMoreInfoNoGuard(entityId) ==
    << [type |-> "hass-more-info", detail |-> [entityId |-> entityId],
        bubbles |-> TRUE, composed |-> TRUE] >>

\* _handleMoreInfo: the events it dispatches
HandleMoreInfo(entityId) ==
    IF entityId = Null \/ entityId = "" THEN << >>
    ELSE << [type |-> "hass-more-info", detail |-> [entityId |-> entityId],
             bubbles |-> TRUE, composed |-> TRUE] >>

-----------------------------------------------------------------------------
(* The Lit update cycle *)

\* String(this._entities.alarms), the key an array becomes when it indexes states
ArrayKey(alarms) == Join(alarms, ",")

\* Object.values(this._entities).filter((e) => e !== null), as property keys
TrackedKeys(entities) ==
    ({entities.face, entities.faceSelect, entities.light, entities.temperature,
      entities.connectivity, entities.rssi} \ {Null}) \cup {ArrayKey(entities.alarms)}

\* shouldUpdate
ShouldUpdate(changed, old, snapshot, entities) ==
    IF "_config" \in changed THEN TRUE
    ELSE IF "hass" \in changed
    THEN IF old = Undefined THEN TRUE
         ELSE \E entityId \in TrackedKeys(entities) :
                  StateOf(old, entityId) # StateOf(snapshot, entityId)
    ELSE TRUE

\* updated: whether it calls _updateEntities
UpdatedResolves(changed) == "hass" \in changed \/ "_config" \in changed

\* the value of the range input after a render: Lit writes the .value binding
\* only when the bound value differs from the one it committed last
SliderAfterRender(old, new, current) ==
    IF new = Nothing \/ new.lightControls = Nothing THEN [value |-> "", drags |-> << >>]
    ELSE IF old = Nothing \/ old.lightControls = Nothing
    THEN [value |-> new.lightControls.value, drags |-> << >>]
    ELSE IF old.lightControls.value = new.lightControls.value THEN current
    ELSE [value |-> new.lightControls.value, drags |-> current.drags]

Init ==
    /\ hass = Undefined
    /\ _config = Undefined
    /\ _entities = InitialEntities
    /\ changedProps = {"_entities"}
    /\ oldHass = Undefined
    /\ pending = TRUE
    /\ rendered = Nothing
    /\ slider = [value |-> "", drags |-> << >>]
    /\ calls = << >>
    /\ events = << >>
    /\ editor = [_config |-> Undefined, hass |-> Undefined]
    /\ lastOp = [op |-> "constructor"]

\* mutant of SetConfig: a rejected configuration also discards the stored one
SetConfigDiscards(config) ==
    /\ calls' = << >>
    /\ events' = << >>
    /\ UNCHANGED editor
    /\ IF MissingDeviceId(config)
       THEN /\ lastOp' = [op |-> "setConfig", threw |-> TRUE, supplied |-> config]
            /\ _config' = Undefined
            /\ UNCHANGED <<hass, _entities, changedProps, oldHass, pending,
                           rendered, slider>>
       ELSE /\ _config' = MergeConfig(config)
            /\ _entities' = UpdateEntities(_config', hass, _entities)
            /\ changedProps' = changedProps \cup {"_config"} \cup
                   (IF UpdateEntitiesAssigns(_config', hass) THEN {"_entities"} ELSE {})
            /\ pending' = TRUE
            /\ lastOp' = [op |-> "setConfig", threw |-> FALSE, supplied |-> config]
            /\ UNCHANGED <<hass, oldHass, rendered, slider>>

\* the host calls setConfig(config)
SetConfig(config) ==
    /\ calls' = << >>
    /\ events' = << >>
    /\ UNCHANGED editor
    /\ IF MissingDeviceId(config)
       THEN /\ lastOp' = [op |-> "setConfig", threw |-> TRUE, supplied |-> config]
            /\ UNCHANGED <<hass, _config, _entities, changedProps, oldHass, pending,
                           rendered, slider>>
       ELSE /\ _config' = MergeConfig(config)
            /\ _entities' = UpdateEntities(_config', hass, _entities)
            /\ changedProps' = changedProps \cup {"_config"} \cup
                   (IF UpdateEntitiesAssigns(_config', hass) THEN {"_entities"} ELSE {})
            /\ pending' = TRUE
            /\ lastOp' = [op |-> "setConfig", threw |-> FALSE, supplied |-> config]
            /\ UNCHANGED <<hass, oldHass, rendered, slider>>

\* the host assigns a new snapshot object to the hass property
SetHass(snapshot) ==
    /\ hass' = snapshot
    /\ oldHass' = IF "hass" \in changedProps THEN oldHass ELSE hass
    /\ changedProps' = changedProps \cup {"hass"}
    /\ pending' = TRUE
    /\ calls' = << >>
    /\ events' = << >>
    /\ UNCHANGED editor
    /\ lastOp' = [op |-> "hass"]
    /\ UNCHANGED <<_config, _entities, rendered, slider>>

\* Lit performs the pending update: shouldUpdate, render, updated
PerformUpdate ==
    /\ pending
    /\ calls' = << >>
    /\ events' = << >>
    /\ UNCHANGED editor
    /\ oldHass' = Undefined
    /\ UNCHANGED <<hass, _config>>
    /\ IF ShouldUpdate(changedProps, oldHass, hass, _entities)
       THEN /\ rendered' = Render(_config, hass, _entities)
            /\ slider' = SliderAfterRender(rendered, rendered', slider)
            /\ IF UpdatedResolves(changedProps)
               THEN /\ _entities' = UpdateEntities(_config, hass, _entities)
                    /\ IF UpdateEntitiesAssigns(_config, hass)
                       THEN changedProps' = {"_entities"} /\ pending' = TRUE
                       ELSE changedProps' = {} /\ pending' = FALSE
               ELSE /\ changedProps' = {}
                    /\ pending' = FALSE
                    /\ UNCHANGED _entities
            /\ lastOp' = [op |-> "update", rendered |-> TRUE, changed |-> changedProps,
                          ids |-> _entities]
       ELSE /\ changedProps' = {}
            /\ pending' = FALSE
            /\ lastOp' = [op |-> "update", rendered |-> FALSE, changed |-> changedProps,
                          ids |-> _entities]
            /\ UNCHANGED <<_entities, rendered, slider>>

\* the range input is in the DOM and enabled, and no update is pending
SliderUsable ==
    /\ ~pending
    /\ rendered # Nothing
    /\ rendered.lightControls # Nothing
    /\ ~rendered.lightControls.disabled

MaxDrags == 2

\* mutant of SliderInput: every input event calls the light service
SliderInputCalls(percent) ==
    /\ SliderUsable
    /\ Len(slider.drags) < MaxDrags
    /\ slider' = [value |-> NumToString(percent), drags |-> Append(slider.drags, percent)]
    /\ pending' = TRUE
    /\ calls' = HandleLightControl(_entities, percent)
    /\ events' = << >>
    /\ UNCHANGED editor
    /\ lastOp' = [op |-> "sliderInput"]
    /\ UNCHANGED <<hass, _config, _entities, changedProps, oldHass, rendered>>

\* the user drags the slider to percent: an input event, _handleSliderChange
SliderInput(percent) ==
    /\ SliderUsable
    /\ Len(slider.drags) < MaxDrags
    /\ slider' = [value |-> NumToString(percent), drags |-> Append(slider.drags, percent)]
    /\ pending' = TRUE
    /\ calls' = << >>
    /\ events' = << >>
    /\ UNCHANGED editor
    /\ lastOp' = [op |-> "sliderInput"]
    /\ UNCHANGED <<hass, _config, _entities, changedProps, oldHass, rendered>>

\* the user releases the slider: a change event, _handleSliderRelease
SliderRelease ==
    /\ SliderUsable
    /\ Len(slider.drags) > 0
    /\ calls' = HandleSliderRelease(_entities, slider.value)
    /\ slider' = [slider EXCEPT !.drags = << >>]
    /\ events' = << >>
    /\ UNCHANGED editor
    /\ lastOp' = [op |-> "sliderRelease", drags |-> slider.drags]
    /\ UNCHANGED <<hass, _config, _entities, changedProps, oldHass, pending, rendered>>

\* the card is in the DOM with no update pending: its listeners can fire
Clickable == ~pending /\ rendered # Nothing

\* mutant of ToggleClick: the button flips the displayed light state at once
ToggleClickOptimistic ==
    /\ Clickable
    /\ rendered.lightControls # Nothing
    /\ calls' = HandleLightControl(_entities, rendered.lightControls.toggleArg)
    /\ events' = << >>
    /\ rendered' = [rendered EXCEPT !.lightControls.isOn = ~@, !.header.lightOn = ~@]
    /\ lastOp' = [op |-> "toggleClick"]
    /\ UNCHANGED <<hass, _config, _entities, changedProps, oldHass, pending,
                   slider, editor>>

\* the user clicks the light toggle button: the listener bound by the last
\* render calls _handleLightControl(isOn ? 0 : currentBrightness)
ToggleClick ==
    /\ Clickable
    /\ rendered.lightControls # Nothing
    /\ calls' = HandleLightControl(_entities, rendered.lightControls.toggleArg)
    /\ events' = << >>
    /\ lastOp' = [op |-> "toggleClick"]
    /\ UNCHANGED <<hass, _config, _entities, changedProps, oldHass, pending, rendered,
                   slider, editor>>

\* the user clicks the k-th face button: _handleFaceSelect(option.value)
FaceClick(k) ==
    /\ Clickable
    /\ rendered.faceSelector # Nothing
    /\ k \in 1..Len(rendered.faceSelector.options)
    /\ calls' = HandleFaceSelect(_entities, rendered.faceSelector.options[k])
    /\ events' = << >>
    /\ lastOp' = [op |-> "faceClick", face |-> rendered.faceSelector.options[k]]
    /\ UNCHANGED <<hass, _config, _entities, changedProps, oldHass, pending, rendered,
                   slider, editor>>

\* the entity identifiers the rendered click targets pass to _handleMoreInfo:
\* the temperature placeholder and every alarm row
MoreInfoTargets(card) ==
    IF card = Nothing THEN {}
    ELSE (IF card.temperature = Nothing THEN {} ELSE {card.temperature.moreInfo})
         \cup (IF card.alarmClocks = Nothing THEN {}
               ELSE { card.alarmClocks.rows[k].moreInfo :
                        k \in { j \in 1..Len(card.alarmClocks.rows) :
                                   card.alarmClocks.rows[j] # Nothing } })

\* _handleMoreInfo(entityId) runs: for a click on a rendered target, or with
\* null, which its parameter type admits
MoreInfo(entityId) ==
    /\ Clickable
    /\ entityId \in MoreInfoTargets(rendered) \cup {Null}
    /\ events' = HandleMoreInfo(entityId)
    /\ calls' = << >>
    /\ lastOp' = [op |-> "moreInfo", entityId |-> entityId]
    /\ UNCHANGED <<hass, _config, _entities, changedProps, oldHass, pending, rendered,
                   slider, editor>>

-----------------------------------------------------------------------------
(* The editor: RemiCardEditor.  A form control is a record of the properties *)
(* _valueChanged reads from ev.target; a property the element does not have  *)
(* is not in the record's domain.                                            *)

\* an ha-textfield bound to a configuration field, holding the typed text
TextField(field, value) == [configValue |-> field, value |-> value]

\* an ha-switch bound to a configuration field
Switch(field, checked) == [configValue |-> field, value |-> "on", checked |-> checked]

\* an element inside the form that carries no configValue
PlainInput(value) == [value |-> value]

\* the controls render() of the editor puts in the form, with their bound values
EditorRender(ed) ==
    IF ed.hass = Undefined \/ ed._config = Undefined THEN Nothing
    ELSE LET config == ed._config
             text(field) == IF Has(config, field) THEN config[field] ELSE ""
             on(field) == ~(Has(config, field) /\ config[field] = FALSE)
         IN  [device_id |-> TextField("device_id", text("device_id")),
              device_name |-> TextField("device_name", text("device_name")),
              show_face_selector |-> Switch("show_face_selector", on("show_face_selector")),
              show_controls |-> Switch("show_controls", on("show_controls")),
              show_temperature_graph |->
                  Switch("show_temperature_graph", on("show_temperature_graph")),
              show_connectivity |-> Switch("show_connectivity", on("show_connectivity")),
              hours_to_show |->
                  TextField("hours_to_show",
                            IF Has(config, "hours_to_show") /\ config["hours_to_show"] # 0
                            THEN config["hours_to_show"] ELSE DefaultHours)]

\* target.checked !== undefined ? target.checked : value
TargetValue(target) == IF Has(target, "checked") THEN target.checked ELSE target.value

\* mutant of ValueChanged: the payload holds only the changed field
ValueChangedOnlyField(ed, target) ==
    IF ed._config = Undefined \/ ed.hass = Undefined THEN << >>
    ELSE IF ~Has(target, "configValue") \/ target.configValue = "" THEN << >>
    ELSE << [type |-> "config-changed",
             detail |-> [config |-> (target.configValue :> TargetValue(target))],
             bubbles |-> TRUE, composed |-> TRUE] >>

\* _valueChanged: the events it dispatches
ValueChanged(ed, target) ==
    IF ed._config = Undefined \/ ed.hass = Undefined THEN << >>
    ELSE IF ~Has(target, "configValue") \/ target.configValue = "" THEN << >>
    ELSE << [type |-> "config-changed",
             detail |-> [config |-> (target.configValue :> TargetValue(target))
                                        @@ ed._config],
             bubbles |-> TRUE, composed |-> TRUE] >>

\* the host calls setConfig(config) on the editor
EditorSetConfig(config) ==
    /\ editor' = [editor EXCEPT !._config = config]
    /\ events' = << >>
    /\ calls' = << >>
    /\ lastOp' = [op |-> "editorSetConfig"]
    /\ UNCHANGED <<hass, _config, _entities, changedProps, oldHass, pending, rendered,
                   slider>>

\* the host assigns the editor's hass property
EditorSetHass(snapshot) ==
    /\ editor' = [editor EXCEPT !.hass = snapshot]
    /\ events' = << >>
    /\ calls' = << >>
    /\ lastOp' = [op |-> "editorSetHass"]
    /\ UNCHANGED <<hass, _config, _entities, changedProps, oldHass, pending, rendered,
                   slider>>

\* mutant of EditorValueChanged: the new configuration is also stored
EditorValueChangedStores(target) ==
    /\ events' = ValueChanged(editor, target)
    /\ calls' = << >>
    /\ lastOp' = [op |-> "valueChanged", target |-> target,
                  form |-> EditorRender(editor) # Nothing]
    /\ editor' = IF events' = << >> THEN editor
                 ELSE [editor EXCEPT !._config = events'[1].detail.config]
    /\ UNCHANGED <<hass, _config, _entities, changedProps, oldHass, pending, rendered,
                   slider>>

\* an input or change event of a form control reaches _valueChanged
EditorValueChanged(target) ==
    /\ events' = ValueChanged(editor, target)
    /\ calls' = << >>
    /\ lastOp' = [op |-> "valueChanged", target |-> target,
                  form |-> EditorRender(editor) # Nothing]
    /\ UNCHANGED <<hass, _config, _entities, changedProps, oldHass, pending, rendered,
                   slider, editor>>

-----------------------------------------------------------------------------
(* The host: entity state objects, snapshots and configurations *)

\* a state object; two state objects are the same object iff they agree on
\* every field, last_updated included
Entity(state, attributes, updated) ==
    [state |-> state, attributes |-> attributes, last_updated |-> updated]

NoAttributes == << >>

\* every snapshot whose entities are drawn from choices: identifier -> set of state objects
SnapshotsOver(choices) ==
    { [states |-> s] :
        s \in UNION { { f \in [ids -> UNION { choices[i] : i \in ids }] :
                          \A i \in ids : f[i] \in choices[i] } :
                      ids \in SUBSET DOMAIN choices } }

LightA == "light.remi_a_night_light"

Alarm1 == "time.a_1_time"

\* snapshots of the life-cycle specification
LifeChoices ==
    (LightA :> { Entity("on", [brightness |-> 128], 0), Entity("off", NoAttributes, 0) })
    @@ (Alarm1 :> { Entity("07:00", [days_indices |-> <<0, 2>>], 0),
                    Entity("07:30", [days_indices |-> <<0, 2>>], 1) })

LifeSnapshots == SnapshotsOver(LifeChoices)

\* configurations the host supplies in the life-cycle specification
LifeConfigs ==
    { << >>, [device_id |-> ""], [device_id |-> "a"], [device_id |-> "b"],
      [device_id |-> "b", device_name |-> "A"] }

\* the life-cycle specification: the host configures the card and pushes snapshots
Next ==
    \/ \E config \in LifeConfigs : SetConfig(config)
    \/ \E snapshot \in LifeSnapshots : SetHass(snapshot)
    \/ PerformUpdate

Spec == Init /\ [][Next]_vars

LightB == "light.remi_b_night_light"

\* snapshots and configurations of the slider specification
SliderChoices ==
    (LightA :> { Entity("on", [brightness |-> 128], 0), Entity("off", NoAttributes, 0) })
    @@ (LightB :> { Entity("on", [brightness |-> 255], 0) })

SliderSnapshots == SnapshotsOver(SliderChoices)

SliderConfigs == { [device_id |-> "a"], [device_id |-> "b"] }

\* positions the user drags the slider to (the input's range is 0..100)
SliderPercents == {0, 1, 37, 100}

\* the slider specification: the life cycle plus the brightness slider
NextSlider ==
    \/ \E config \in SliderConfigs : SetConfig(config)
    \/ \E snapshot \in SliderSnapshots : SetHass(snapshot)
    \/ PerformUpdate
    \/ \E percent \in SliderPercents : SliderInput(percent)
    \/ SliderRelease

SpecSlider == Init /\ [][NextSlider]_vars

\* snapshots of the render specification: every section's entity absent,
\* available or unavailable
RenderChoices ==
    ("sensor.remi_a_face" :> { Entity("awakeFace", NoAttributes, 0) })
    @@ ("select.remi_a_face" :> { Entity("awakeFace", NoAttributes, 0) })
    @@ (LightA :> { Entity("on", [brightness |-> 128], 0) })
    @@ (Alarm1 :> { Entity("07:00", [days_indices |-> <<0, 2>>], 0),
                    Entity("unavailable", NoAttributes, 0) })
    @@ ("sensor.remi_a_temperature" :> { Entity("21", NoAttributes, 0),
                                         Entity("unavailable", NoAttributes, 0) })
    @@ ("binary_sensor.remi_a_connectivity" :> { Entity("on", NoAttributes, 0),
                                                 Entity("unavailable", NoAttributes, 0) })
    @@ ("sensor.remi_a_rssi" :> { Entity("-60", NoAttributes, 0),
                                  Entity("unavailable", NoAttributes, 0) })

RenderSnapshots ==
    { h \in SnapshotsOver(RenderChoices) : "sensor.remi_a_face" \in DOMAIN h.states }

\* configurations of the render specification: device a with every choice of
\* show_* flags switched off
RenderConfigs ==
    { [f \in off |-> FALSE] @@ [device_id |-> "a"] : off \in SUBSET ShowFlags }

\* the render specification: the host configures the card once and supplies
\* one snapshot, in either order
NextRender ==
    \/ \E config \in RenderConfigs : _config = Undefined /\ SetConfig(config)
    \/ \E snapshot \in RenderSnapshots : hass = Undefined /\ SetHass(snapshot)
    \/ PerformUpdate

SpecRender == Init /\ [][NextRender]_vars

\* the native brightness range of a light entity
MaxBrightness == 255

LightSnapshot(brightness) ==
    [states |-> (LightA :> Entity("on", [brightness |-> brightness], 0))]

BrightnessOf(snapshot) == snapshot.states[LightA].attributes["brightness"]

\* the light specification: device a's light is on; the host's first snapshot
\* has any native brightness, and each later one raises it by one
NextLight ==
    \/ _config = Undefined /\ SetConfig([device_id |-> "a"])
    \/ \E brightness \in 0..MaxBrightness :
           /\ IF hass = Undefined THEN TRUE
              ELSE ~pending /\ brightness = BrightnessOf(hass) + 1
           /\ SetHass(LightSnapshot(brightness))
    \/ PerformUpdate

SpecLight == Init /\ [][NextLight]_vars

\* the longest days_indices of the alarm specification
MaxDays == 2

DaySeqs == UNION { [1..n -> 0..6] : n \in 0..MaxDays }

AlarmAttributes ==
    {NoAttributes} \cup { [days_indices |-> d] : d \in DaySeqs }
    \cup { [days_indices |-> <<0, 2>>, days |-> <<"monday", "wednesday">>] }

AlarmSnapshots == { [states |-> (Alarm1 :> Entity("07:00", a, 0))] : a \in AlarmAttributes }

\* the alarm specification: device a has one alarm, whose attributes the host changes
NextAlarm ==
    \/ _config = Undefined /\ SetConfig([device_id |-> "a"])
    \/ \E snapshot \in AlarmSnapshots :
           (hass = Undefined \/ ~pending) /\ SetHass(snapshot)
    \/ PerformUpdate

SpecAlarm == Init /\ [][NextAlarm]_vars

\* configurations of the configuration specification: every field but
\* device_id omitted or provided, each flag with either value
ConfigInputs ==
    { flags @@ name @@ hours @@ [device_id |-> "a"] :
        flags \in UNION { [given -> BOOLEAN] : given \in SUBSET ShowFlags },
        name \in { << >>, [device_name |-> "Ann"], [device_name |-> ""] },
        hours \in { << >>, [hours_to_show |-> 12] } }

ConfigSnapshot == [states |-> (LightA :> Entity("off", NoAttributes, 0))]

\* the configuration specification: the host configures the card once
NextConfig ==
    \/ \E config \in ConfigInputs : _config = Undefined /\ SetConfig(config)
    \/ hass = Undefined /\ SetHass(ConfigSnapshot)
    \/ PerformUpdate

SpecConfig == Init /\ [][NextConfig]_vars

\* configurations the host hands to the editor
EditorConfigs ==
    { [type |-> "custom:remi-card", device_id |-> "a"],
      [type |-> "custom:remi-card", device_id |-> "a", device_name |-> "Ann",
       show_controls |-> FALSE, hours_to_show |-> 12],
      [type |-> "custom:remi-card", device_id |-> "b", show_connectivity |-> TRUE,
       show_alarm_clocks |-> FALSE] }

\* the fields the editor's form edits
EditorTextFields == {"device_id", "device_name", "hours_to_show"}

EditorSwitches == {"show_face_selector", "show_controls", "show_temperature_graph",
                   "show_connectivity"}

\* what the user can do to a control: type a text, flip a switch
EditorTargets ==
    { TextField(field, value) : field \in EditorTextFields, value \in {"", "b", "48"} }
    \cup { Switch(field, checked) : field \in EditorSwitches, checked \in BOOLEAN }
    \cup { PlainInput("x") }

\* the editor specification: the host configures the editor, the user edits the form
NextEditor ==
    \/ \E config \in EditorConfigs : EditorSetConfig(config)
    \/ EditorSetHass(ConfigSnapshot)
    \/ \E target \in EditorTargets : EditorValueChanged(target)

SpecEditor == Init /\ [][NextEditor]_vars

\* the host hands the configuration of a 'config-changed' event to the card
ApplyConfigChanged ==
    /\ events # << >>
    /\ events[1].type = "config-changed"
    /\ SetConfig(events[1].detail.config)

\* the editor specification with the card the edited configuration goes to
NextEditorCard ==
    \/ \E config \in EditorConfigs : EditorSetConfig(config)
    \/ EditorSetHass(ConfigSnapshot)
    \/ \E target \in EditorTargets : EditorValueChanged(target)
    \/ ApplyConfigChanged

SpecEditorCard == Init /\ [][NextEditorCard]_vars

FaceA == "sensor.remi_a_face"

SelectA == "select.remi_a_face"

TemperatureA == "sensor.remi_a_temperature"

\* snapshots of the section specification: the face, selector, light and
\* temperature entities absent, unavailable or in each kind of state
SectionChoices ==
    (FaceA :> { Entity("awakeFace", NoAttributes, 0), Entity("unavailable", NoAttributes, 0),
                Entity("partyFace", NoAttributes, 0), Entity("constructor", NoAttributes, 0),
                Entity("", NoAttributes, 0) })
    @@ (SelectA :> { Entity("awakeFace", NoAttributes, 0),
                     Entity("unavailable", NoAttributes, 0) })
    @@ (LightA :> { Entity("on", [brightness |-> 128], 0), Entity("on", NoAttributes, 0),
                    Entity("off", NoAttributes, 0), Entity("unavailable", NoAttributes, 0) })
    @@ (TemperatureA :> { Entity("21", NoAttributes, 0),
                          Entity("unavailable", NoAttributes, 0) })

SectionSnapshots == SnapshotsOver(SectionChoices)

\* the section specification: the host configures device a once, with the
\* default flags, and supplies one snapshot, in either order
NextSection ==
    \/ _config = Undefined /\ SetConfig([device_id |-> "a"])
    \/ \E snapshot \in SectionSnapshots : hass = Undefined /\ SetHass(snapshot)
    \/ PerformUpdate

SpecSection == Init /\ [][NextSection]_vars

\* snapshots of the interaction specification
InteractChoices ==
    (LightA :> { Entity("on", [brightness |-> 128], 0), Entity("off", NoAttributes, 0) })
    @@ (SelectA :> { Entity("awakeFace", NoAttributes, 0) })
    @@ ("select.remi_b_face" :> { Entity("sleepyFace", NoAttributes, 0) })
    @@ (Alarm1 :> { Entity("07:00", NoAttributes, 0) })

InteractSnapshots == SnapshotsOver(InteractChoices)

\* the interaction specification: the life cycle plus the user's clicks and
\* slider gestures
NextInteract ==
    \/ \E config \in SliderConfigs : SetConfig(config)
    \/ \E snapshot \in InteractSnapshots : ~pending /\ SetHass(snapshot)
    \/ PerformUpdate
    \/ ToggleClick
    \/ \E k \in 1..Len(FaceStates) : FaceClick(k)
    \/ \E entityId \in {Null, Alarm1, TemperatureA, "sensor.remi_b_temperature"} :
           MoreInfo(entityId)
    \/ \E percent \in {0, 37} : SliderInput(percent)
    \/ SliderRelease

SpecInteract == Init /\ [][NextInteract]_vars

Alarm2 == "time.a_2_time"

\* snapshots of the tracking specification: the light and two alarms of
\* device a, each absent or in one of two state objects
TrackChoices ==
    (LightA :> { Entity("on", [brightness |-> 128], 0), Entity("off", NoAttributes, 0) })
    @@ (Alarm1 :> { Entity("07:00", NoAttributes, 0), Entity("07:30", NoAttributes, 1) })
    @@ (Alarm2 :> { Entity("08:00", NoAttributes, 0), Entity("08:30", NoAttributes, 1) })

TrackSnapshots == SnapshotsOver(TrackChoices)

\* the tracking specification: device a is configured once and the host
\* pushes one snapshot per update
NextTrack ==
    \/ _config = Undefined /\ SetConfig([device_id |-> "a"])
    \/ \E snapshot \in TrackSnapshots : ~pending /\ SetHass(snapshot)
    \/ PerformUpdate

SpecTrack == Init /\ [][NextTrack]_vars

\* snapshots of the scan specification: time entities that match device a's
\* alarm pattern and time entities that miss it by prefix or by suffix
ScanIds == {Alarm1, Alarm2, "time.a_1_date", "time.b_1_time", "time.a_time",
            "time.ab_1_time"}

ScanSnapshots ==
    { [states |-> [id \in ids |-> Entity("07:00", NoAttributes, 0)]] : ids \in SUBSET ScanIds }

\* configurations of the scan specification: the name omitted, given in upper
\* case, given empty, and naming no entity
ScanConfigs ==
    { [device_id |-> "a"], [device_id |-> "b", device_name |-> "A"],
      [device_id |-> "b"], [device_id |-> "a", device_name |-> ""],
      [device_id |-> "a", device_name |-> "Zed"] }

\* the scan specification: the host reconfigures the card and pushes snapshots
NextScan ==
    \/ \E config \in ScanConfigs : ~pending /\ SetConfig(config)
    \/ \E snapshot \in ScanSnapshots : ~pending /\ SetHass(snapshot)
    \/ PerformUpdate

SpecScan == Init /\ [][NextScan]_vars

\* snapshots of the toggle specification: device a's light on, off or
\* unavailable, with no brightness attribute or any native brightness
ToggleSnapshots ==
    { [states |-> (LightA :> Entity(state, attributes, 0))] :
        state \in {"on", "off", "unavailable"},
        attributes \in {NoAttributes} \cup { [brightness |-> b] : b \in 0..MaxBrightness } }

\* the toggle specification: device a is configured, the host supplies one
\* snapshot, and the user clicks the light toggle button
NextToggle ==
    \/ _config = Undefined /\ SetConfig([device_id |-> "a"])
    \/ \E snapshot \in ToggleSnapshots : hass = Undefined /\ SetHass(snapshot)
    \/ PerformUpdate
    \/ ToggleClick

SpecToggle == Init /\ [][NextToggle]_vars

\* the life-cycle specification with Lit's scheduling: an update that has been
\* requested is eventually performed (its microtask runs)
SpecLive == Init /\ [][Next]_vars /\ WF_vars(PerformUpdate)

-----------------------------------------------------------------------------
(* Properties *)

\* the identifiers the README lists under "Required Entities", for the device
\* ids of the model
DocumentedIds ==
    [a |-> [face |-> "sensor.remi_a_face", faceSelect |-> "select.remi_a_face",
            light |-> "light.remi_a_night_light",
            temperature |-> "sensor.remi_a_temperature",
            connectivity |-> "binary_sensor.remi_a_connectivity",
            rssi |-> "sensor.remi_a_rssi"],
     b |-> [face |-> "sensor.remi_b_face", faceSelect |-> "select.remi_b_face",
            light |-> "light.remi_b_night_light",
            temperature |-> "sensor.remi_b_temperature",
            connectivity |-> "binary_sensor.remi_b_connectivity",
            rssi |-> "sensor.remi_b_rssi"]]

SixIds(entities) ==
    [face |-> entities.face, faceSelect |-> entities.faceSelect, light |-> entities.light,
     temperature |-> entities.temperature, connectivity |-> entities.connectivity,
     rssi |-> entities.rssi]

Unresolved == [face |-> Null, faceSelect |-> Null, light |-> Null, temperature |-> Null,
               connectivity |-> Null, rssi |-> Null]

\* the last step ran _updateEntities
ResolutionRan ==
    \/ lastOp.op = "setConfig" /\ ~lastOp.threw
    \/ lastOp.op = "update" /\ lastOp.rendered
          /\ ("hass" \in lastOp.changed \/ "_config" \in lastOp.changed)

\* a supplied configuration without a usable device_id
NoDeviceId(config) == "device_id" \notin DOMAIN config \/ config["device_id"] = ""

\* C1: once resolved, the six identifiers are the documented templates for the
\* device_id of the current (latest accepted) configuration, all six together;
\* and they are resolved as soon as resolution has run with a configuration and
\* a snapshot present.
C1_IdentifiersFollowDeviceId ==
    /\ SixIds(_entities) # Unresolved =>
           /\ _config # Undefined
           /\ SixIds(_entities) = DocumentedIds[_config["device_id"]]
    /\ (hass # Undefined /\ _config # Undefined /\ ResolutionRan) =>
           SixIds(_entities) = DocumentedIds[_config["device_id"]]

\* C1 witness: the card showed device a, then setConfig switched it to device b
C1_Witness ==
    /\ lastOp.op = "setConfig" /\ ~lastOp.threw
    /\ rendered # Nothing /\ rendered.header.title = "en:common.remi a"
    /\ _config["device_id"] = "b"
    /\ _entities.rssi = "sensor.remi_b_rssi"

\* C2: setConfig without a device_id throws, and the card never shows anything
\* unless a configuration with a non-empty device_id has been accepted.
C2_NoRenderWithoutDeviceId ==
    /\ (lastOp.op = "setConfig" /\ NoDeviceId(lastOp.supplied)) => lastOp.threw
    /\ _config # Undefined => ~NoDeviceId(_config)
    /\ rendered # Nothing => _config # Undefined

\* C2 witness: with a snapshot present and the first update done, a
\* configuration with an empty device_id was rejected and nothing is shown
C2_Witness ==
    /\ lastOp.op = "setConfig" /\ lastOp.threw
    /\ lastOp.supplied = [device_id |-> ""]
    /\ hass # Undefined /\ ~pending
    /\ rendered = Nothing

\* C7: whenever an update processes a changed snapshot, the alarm list is the
\* one the current snapshot and configuration resolve to.
C7_ResolvedOnEverySnapshot ==
    (lastOp.op = "update" /\ "hass" \in lastOp.changed /\ _config # Undefined) =>
        _entities.alarms = FindAlarms(hass.states, DeviceName(_config))

\* what a light call asks for: 0 for turn_off, the percentage for turn_on
Carried(call) ==
    IF call.service = "turn_off" THEN 0 ELSE call.data["brightness_pct"]

\* C5: a release of the slider issues exactly one call, for the light
\* identifier of the current device: light.turn_off without a brightness when
\* the slider is at 0, light.turn_on with brightness_pct = v when it is at v
\* in 1..100.
C5_ReleaseIssuesOneLightCall ==
    lastOp.op = "sliderRelease" =>
        /\ Len(calls) = 1
        /\ calls[1].domain = "light"
        /\ calls[1].data["entity_id"] = DocumentedIds[_config["device_id"]].light
        /\ slider.value = "0" =>
               calls[1].service = "turn_off" /\ DOMAIN calls[1].data = {"entity_id"}
        /\ \A v \in 1..100 : slider.value = ToString(v) =>
               /\ calls[1].service = "turn_on"
               /\ calls[1].data["brightness_pct"] = v

\* C5 witness: releases at 0, at 1 and at 100 all happen; this one is at 0
C5_Witness ==
    /\ lastOp.op = "sliderRelease"
    /\ slider.value = "0"
    /\ calls = << [domain |-> "light", service |-> "turn_off",
                   data |-> [entity_id |-> "light.remi_a_night_light"]] >>

\* C6: a drag (input event) issues no call; the release issues exactly one,
\* carrying the value the slider holds at the release, which is the last drag
\* position and not an earlier one.
C6_OnlyReleaseCalls ==
    /\ lastOp.op = "sliderInput" => calls = << >>
    /\ lastOp.op = "sliderRelease" =>
           /\ Len(calls) = 1
           /\ ToString(Carried(calls[1])) = slider.value
           /\ slider.value = ToString(lastOp.drags[Len(lastOp.drags)]) =>
                  Carried(calls[1]) = lastOp.drags[Len(lastOp.drags)]

\* C6 witness: two drags to different positions, then a release carrying the second
C6_Witness ==
    /\ lastOp.op = "sliderRelease"
    /\ lastOp.drags = <<1, 100>>
    /\ calls[1].service = "turn_on"
    /\ calls[1].data["brightness_pct"] = 100

\* the last step was an update that rendered the card
JustRendered == lastOp.op = "update" /\ lastOp.rendered /\ rendered # Nothing

\* the section of the rendered card that each show_* flag gates
SectionOf ==
    [show_face_selector |-> "faceSelector", show_controls |-> "lightControls",
     show_alarm_clocks |-> "alarmClocks", show_temperature_graph |-> "temperature",
     show_connectivity |-> "connectivity"]

Sections == {"header", "faceSelector", "lightControls", "alarmClocks", "temperature",
             "connectivity"}

\* C3: for the configuration, snapshot and identifiers of any render, the same
\* render with one show_* flag switched to false lacks exactly the section
\* that flag gates: the header and every other section are what was rendered.
C3_FlagRemovesOnlyItsSection ==
    JustRendered =>
        \A flag \in ShowFlags :
            LET off == Render([_config EXCEPT ![flag] = FALSE], hass, lastOp.ids)
            IN  /\ off[SectionOf[flag]] = Nothing
                /\ \A section \in Sections \ {SectionOf[flag]} :
                       off[section] = rendered[section]

\* C3 witness: a card showing all five sections, so that each flag has a
\* section to remove
C3_Witness ==
    /\ JustRendered
    /\ \A section \in Sections : rendered[section] # Nothing
    /\ rendered.connectivity.rssi # Nothing

ConnectivityA == "binary_sensor.remi_a_connectivity"

RssiA == "sensor.remi_a_rssi"

\* the entity is in the snapshot and its state is not 'unavailable'
Available(snapshot, entityId) ==
    entityId \in DOMAIN snapshot.states /\ snapshot.states[entityId].state # "unavailable"

\* C8: with show_connectivity on, a connectivity entity that is absent or
\* unavailable suppresses the whole section whatever the RSSI entity is, as
\* does a connectivity identifier that is not resolved yet; an available
\* connectivity entity shows the section, with the signal-strength row iff the
\* RSSI entity is available.
C8_ConnectivityGatesSignalRow ==
    (JustRendered /\ _config["show_connectivity"] /\ _config["device_id"] = "a") =>
        /\ ~Available(hass, ConnectivityA) => rendered.connectivity = Nothing
        /\ lastOp.ids.connectivity = Null => rendered.connectivity = Nothing
        /\ (Available(hass, ConnectivityA) /\ lastOp.ids.connectivity # Null) =>
               /\ rendered.connectivity # Nothing
               /\ rendered.connectivity.rssi # Nothing <=> Available(hass, RssiA)

\* C8 witness: connectivity unavailable, RSSI available, nothing shown
C8_Witness ==
    /\ JustRendered /\ _config["show_connectivity"]
    /\ lastOp.ids.connectivity = ConnectivityA
    /\ ConnectivityA \in DOMAIN hass.states
    /\ hass.states[ConnectivityA].state = "unavailable"
    /\ Available(hass, RssiA)
    /\ rendered.connectivity = Nothing

\* the percentage at the end of the header's status line
HasHeaderPercent(card) ==
    \E p \in 0..100 : EndsWith(card.header.status, " * " \o ToString(p) \o "%")

HeaderPercent(card) ==
    CHOOSE p \in 0..100 : EndsWith(card.header.status, " * " \o ToString(p) \o "%")

\* p is the integer nearest to b / 255 * 100
NearestPercent(p, b) ==
    /\ 2 * (255 * p - 100 * b) <= 255
    /\ 2 * (100 * b - 255 * p) <= 255

\* the card rendered device a's light, on, from resolved identifiers
LightShown ==
    /\ JustRendered
    /\ _config["show_controls"]
    /\ lastOp.ids.light = LightA
    /\ LightA \in DOMAIN hass.states
    /\ hass.states[LightA].state = "on"

\* C4, in a state: the header shows the percentage nearest to b / 255 * 100
\* (50% for 128, 100% for 255), and for b >= 1 the slider shows the same
\* percentage, within 0..100.
C4_PercentShown ==
    LightShown =>
        LET b == BrightnessOf(hass)
        IN  /\ HasHeaderPercent(rendered)
            /\ NearestPercent(HeaderPercent(rendered), b)
            /\ b = 128 => HeaderPercent(rendered) = 50
            /\ b = 255 => HeaderPercent(rendered) = 100
            /\ b >= 1 =>
                   /\ rendered.lightControls.value = ToString(HeaderPercent(rendered))
                   /\ rendered.lightControls.label = ToString(HeaderPercent(rendered)) \o "%"

\* C4, in a step: an update that renders a brightness b' >= b >= 1 after a
\* render of b shows a percentage that is not smaller, in the header and on
\* the slider.
C4_PercentStep ==
    ( /\ pending /\ "hass" \in changedProps /\ oldHass # Undefined
      /\ rendered # Nothing /\ rendered.lightControls # Nothing
      /\ rendered.lightControls.isOn /\ HasHeaderPercent(rendered)
      /\ BrightnessOf(oldHass) >= 1 /\ BrightnessOf(oldHass) <= BrightnessOf(hass)
      /\ lastOp'.op = "update" /\ lastOp'.rendered ) =>
        /\ HasHeaderPercent(rendered')
        /\ HeaderPercent(rendered') >= HeaderPercent(rendered)
        /\ ParseInt(rendered'.lightControls.value) >= ParseInt(rendered.lightControls.value)

\* C4: for a light that is on with native brightness b, the header shows
\* round(b / 255 * 100) percent, 50% for 128 and 100% for 255; for b in 1..255
\* the header and the slider show a percentage in 0..100 that never decreases
\* when b grows.
C4_BrightnessPercent == []C4_PercentShown /\ [][C4_PercentStep]_vars

\* C4 witness: brightness 128 is shown as 50%, after 127 was
C4_Witness ==
    /\ LightShown
    /\ BrightnessOf(hass) = 128
    /\ "hass" \in lastOp.changed
    /\ EndsWith(rendered.header.status, " * 50%")
    /\ rendered.lightControls.value = "50"

\* the label of weekday index i, Monday being 0
WeekdayLabel(i) ==
    CASE i = 0 -> "Mon" [] i = 1 -> "Tue" [] i = 2 -> "Wed" [] i = 3 -> "Thu"
      [] i = 4 -> "Fri" [] i = 5 -> "Sat" [] i = 6 -> "Sun"

RECURSIVE WeekdayList(_)
\* the labels of a non-empty index list, in its order, separated by ", "
WeekdayList(indices) ==
    IF Len(indices) = 1 THEN WeekdayLabel(indices[1])
    ELSE WeekdayList(SubSeq(indices, 1, Len(indices) - 1)) \o ", "
             \o WeekdayLabel(indices[Len(indices)])

\* C9: the row of an available alarm shows the weekday labels of days_indices,
\* in the order of days_indices, joined by ", " ("Mon, Wed" for [0,2]), and the
\* "no repeat" label when days_indices is empty or absent.
C9_AlarmDaysText ==
    ( /\ JustRendered /\ rendered.alarmClocks # Nothing
      /\ lastOp.ids.alarms = <<Alarm1>>
      /\ Available(hass, Alarm1) ) =>
        LET attributes == hass.states[Alarm1].attributes
            row == rendered.alarmClocks.rows[1]
        IN  /\ row # Nothing
            /\ IF "days_indices" \in DOMAIN attributes /\ Len(attributes["days_indices"]) > 0
               THEN row.days = WeekdayList(attributes["days_indices"])
               ELSE row.days = "en:alarm.no_repeat"
            /\ ("days_indices" \in DOMAIN attributes /\ attributes["days_indices"] = <<0, 2>>)
                   => row.days = "Mon, Wed"

\* C9 witness: days_indices = [2, 0] is shown in that order
C9_Witness ==
    /\ JustRendered /\ rendered.alarmClocks # Nothing
    /\ hass.states[Alarm1].attributes = [days_indices |-> <<2, 0>>]
    /\ rendered.alarmClocks.rows[1] # Nothing
    /\ rendered.alarmClocks.rows[1].days = "Wed, Mon"

\* what setConfig keeps of the supplied configuration and what it defaults
ConfigApplied ==
    (lastOp.op = "setConfig" /\ ~lastOp.threw) =>
        /\ \A flag \in ShowFlags :
               _config[flag] = IF flag \in DOMAIN lastOp.supplied
                               THEN lastOp.supplied[flag] ELSE TRUE
        /\ _config["hours_to_show"] = IF "hours_to_show" \in DOMAIN lastOp.supplied
                                      THEN lastOp.supplied["hours_to_show"] ELSE 24
        /\ \A field \in DOMAIN lastOp.supplied : _config[field] = lastOp.supplied[field]
        /\ "device_name" \in DOMAIN _config <=> "device_name" \in DOMAIN lastOp.supplied

\* the device name in the header's title
TitleNames(name) == rendered.header.title = "en:common.remi " \o name

\* C10 as stated: omitted flags are true and omitted hours_to_show is 24,
\* provided fields keep their values, and the display name is device_name
\* whenever it is provided, device_id otherwise.
C10_NameWheneverProvided ==
    /\ ConfigApplied
    /\ JustRendered =>
           TitleNames(IF "device_name" \in DOMAIN _config THEN _config["device_name"]
                      ELSE _config["device_id"])

\* C10 amended: the display name is device_name when it is provided and not
\* the empty string, device_id otherwise.
C10_DefaultsAndDisplayName ==
    /\ ConfigApplied
    /\ JustRendered =>
           TitleNames(IF "device_name" \in DOMAIN _config /\ _config["device_name"] # ""
                      THEN _config["device_name"] ELSE _config["device_id"])

\* C10 witness: a configuration that provides some fields and omits others
C10_Witness ==
    /\ lastOp.op = "setConfig" /\ ~lastOp.threw
    /\ lastOp.supplied = [device_id |-> "a", device_name |-> "Ann",
                          show_controls |-> FALSE, hours_to_show |-> 12]
    /\ _config["show_controls"] = FALSE
    /\ _config["show_connectivity"] = TRUE
    /\ _config["hours_to_show"] = 12

\* the editor's form is rendered and the last step changed one of its fields
FieldChanged ==
    /\ lastOp.op = "valueChanged"
    /\ lastOp.form
    /\ "configValue" \in DOMAIN lastOp.target

\* C11: a change of a field of the editor's form emits exactly one
\* 'config-changed' event; its configuration has the changed field set to the
\* switch's checked state or the text field's value, and every other field of
\* the editor's configuration with its value, and no further field.
C11_OneEventWithMergedConfig ==
    FieldChanged =>
        /\ Len(events) = 1
        /\ events[1].type = "config-changed"
        /\ LET target == lastOp.target
               field == target.configValue
               sent == events[1].detail.config
           IN  /\ DOMAIN sent = DOMAIN editor._config \cup {field}
               /\ sent[field] = IF field \in EditorSwitches THEN target.checked
                                 ELSE target.value
               /\ \A other \in DOMAIN editor._config \ {field} :
                      sent[other] = editor._config[other]

\* C11 witness: show_controls, stored as false, is switched on
C11_Witness ==
    /\ FieldChanged
    /\ lastOp.target = Switch("show_controls", TRUE)
    /\ "show_controls" \in DOMAIN editor._config
    /\ editor._config["show_controls"] = FALSE
    /\ events[1].detail.config["show_controls"] = TRUE
    /\ events[1].detail.config["device_name"] = "Ann"

\* the last step rendered the card from resolved identifiers
RenderedResolved == JustRendered /\ SixIds(lastOp.ids) = DocumentedIds[_config["device_id"]]

\* the face label the header shows for the snapshot
FaceLabelShown ==
    IF Available(hass, FaceA) /\ hass.states[FaceA].state # ""
    THEN "en:face." \o hass.states[FaceA].state
    ELSE "en:common.unknown"

\* the light parts the status line may end with
LightParts == {" * en:common.off"} \cup { " * " \o ToString(p) \o "%" : p \in 0..100 }

\* C12: the status line is the temperature (when the entity exists and is not
\* unavailable), the face label and a light part, in that order, and the light
\* part is always there: a percentage or the 'off' label.
C12_StatusLineThreeParts ==
    RenderedResolved =>
        LET temp == IF Available(hass, TemperatureA)
                    THEN hass.states[TemperatureA].state \o "C" ELSE ""
        IN  \E light \in LightParts :
                rendered.header.status = temp \o " * " \o FaceLabelShown \o light

\* C13: with its flag on, each optional section renders nothing when its
\* entity is absent from the snapshot or unavailable; so the light controls
\* are not rendered when the light is absent or unavailable.
C13_SectionsSelfSuppress ==
    RenderedResolved =>
        /\ ~Available(hass, SelectA) => rendered.faceSelector = Nothing
        /\ ~Available(hass, LightA) => rendered.lightControls = Nothing
        /\ ~Available(hass, TemperatureA) => rendered.temperature = Nothing
        /\ ~Available(hass, ConnectivityA) => rendered.connectivity = Nothing
        /\ (\A k \in 1..Len(lastOp.ids.alarms) : ~Available(hass, lastOp.ids.alarms[k]))
               => rendered.alarmClocks = Nothing

\* C14: with show_temperature_graph on, the temperature section is missing
\* only while the temperature identifier is unresolved; once resolved it is
\* shown for every state of the entity, with the state's literal text
\* ('unavailable' included) and with no text when the entity is absent.
C14_TemperatureAlwaysShown ==
    (JustRendered /\ _config["show_temperature_graph"]) =>
        /\ rendered.temperature = Nothing <=> lastOp.ids.temperature = Null
        /\ lastOp.ids.temperature # Null =>
               /\ lastOp.ids.temperature = TemperatureA
               /\ rendered.temperature.state =
                      (IF TemperatureA \in DOMAIN hass.states
                       THEN hass.states[TemperatureA].state ELSE "") \o "C"

\* C14 witness: the temperature entity is unavailable and the section shows that text
C14_Witness ==
    /\ RenderedResolved
    /\ TemperatureA \in DOMAIN hass.states
    /\ hass.states[TemperatureA].state = "unavailable"
    /\ rendered.temperature # Nothing
    /\ rendered.temperature.state = "unavailableC"

\* C15: every render of the card has the header; a face entity that is absent
\* or unavailable gives the blank-face icon and the 'unknown' label, and so
\* does, for the icon, every face state outside the five known faces.
C15_HeaderAndFallbackFace ==
    RenderedResolved =>
        /\ rendered.header # Nothing
        /\ ~Available(hass, FaceA) =>
               /\ rendered.header.faceImage = "face_blank.png"
               /\ rendered.header.faceName = "en:common.unknown"
        /\ (Available(hass, FaceA)
              /\ \A k \in 1..Len(FaceStates) : hass.states[FaceA].state # FaceStates[k])
               => rendered.header.faceImage = "face_blank.png"

\* the five fixed face values
FiveFaces == {"sleepyFace", "semiAwakeFace", "awakeFace", "smilyFace", "blankFace"}

\* C16: the face selector renders nothing when the selector entity is not in
\* the snapshot; a click on a face button of a rendered selector issues exactly
\* one select.select_option call, for the select identifier of the current
\* device, whose option is the clicked face, one of the five fixed faces.
C16_FaceClickSelectsOption ==
    /\ (RenderedResolved /\ lastOp.ids.faceSelect \notin DOMAIN hass.states) =>
           rendered.faceSelector = Nothing
    /\ (JustRendered /\ rendered.faceSelector # Nothing) =>
           { rendered.faceSelector.options[k] :
               k \in 1..Len(rendered.faceSelector.options) } = FiveFaces
    /\ lastOp.op = "faceClick" =>
           /\ lastOp.face \in FiveFaces
           /\ events = << >>
           /\ calls = << [domain |-> "select", service |-> "select_option",
                          data |-> [entity_id |-> DocumentedIds[_config["device_id"]].faceSelect,
                                    option |-> lastOp.face]] >>

\* C16 witness: on device b, the smily face is clicked
C16_Witness ==
    /\ lastOp.op = "faceClick"
    /\ lastOp.face = "smilyFace"
    /\ Len(calls) = 1
    /\ calls[1].data["entity_id"] = "select.remi_b_face"

\* C17: a more-info request dispatches exactly one 'hass-more-info' event
\* carrying the identifier of the clicked entity and calls no service; a
\* request with a null identifier dispatches nothing.
C17_MoreInfoIsLocalEvent ==
    lastOp.op = "moreInfo" =>
        /\ calls = << >>
        /\ lastOp.entityId = Null => events = << >>
        /\ lastOp.entityId # Null =>
               /\ Len(events) = 1
               /\ events[1].type = "hass-more-info"
               /\ events[1].detail = [entityId |-> lastOp.entityId]
               /\ lastOp.entityId \in
                      {DocumentedIds[_config["device_id"]].temperature}
                      \cup { _entities.alarms[k] : k \in 1..Len(_entities.alarms) }

\* C17 witness: the alarm row is clicked
C17_Witness ==
    /\ lastOp.op = "moreInfo"
    /\ lastOp.entityId = Alarm1
    /\ events = << [type |-> "hass-more-info", detail |-> [entityId |-> Alarm1],
                    bubbles |-> TRUE, composed |-> TRUE] >>

\* the steps that issue service calls
CallOps == {"toggleClick", "faceClick", "sliderRelease"}

\* C19, in a step: a step that issues a call leaves the configuration, the
\* identifiers, the snapshot, the displayed card and the pending update as
\* they were; only steps of the user issue calls, an update never does (no
\* retry); and the displayed card changes only in an update that follows a
\* write of the snapshot, the configuration or the identifiers.
C19_CallStep ==
    /\ calls' # << >> =>
           /\ lastOp'.op \in CallOps
           /\ UNCHANGED <<hass, _config, _entities, rendered, pending, changedProps>>
           /\ slider'.value = slider.value
    /\ lastOp'.op \in CallOps =>
           UNCHANGED <<hass, _config, _entities, rendered, pending, changedProps>>
    /\ rendered' # rendered =>
           /\ lastOp'.op = "update"
           /\ changedProps \cap {"hass", "_config", "_entities"} # {}

\* C19: issuing a remote call changes no state of the card, and what the card
\* displays changes only when the host has pushed a snapshot or configuration.
C19_CallsChangeNothing == [][C19_CallStep]_vars

\* C19 witness: the toggle asked to turn the light off and the card still shows it on
C19_Witness ==
    /\ lastOp.op = "toggleClick"
    /\ calls = << [domain |-> "light", service |-> "turn_off",
                   data |-> [entity_id |-> LightA]] >>
    /\ rendered.lightControls.isOn
    /\ rendered.header.lightOn
    /\ ~pending

\* the entities the card tracks: the resolved identifiers and the alarms of
\* the resolved alarm list
TrackedEntities ==
    ({_entities.face, _entities.faceSelect, _entities.light, _entities.temperature,
      _entities.connectivity, _entities.rssi} \ {Null})
    \cup { _entities.alarms[k] : k \in 1..Len(_entities.alarms) }

\* an update is about to process a new snapshot, and nothing else
SnapshotPending ==
    pending /\ changedProps = {"hass"} /\ oldHass # Undefined /\ _config # Undefined

\* C20, in a step: the update that processes a new snapshot renders iff the
\* state object of some tracked entity differs from the previous snapshot's.
C20_Step ==
    (SnapshotPending /\ lastOp'.op = "update") =>
        (lastOp'.rendered <=>
            \E entityId \in TrackedEntities :
                StateOf(oldHass, entityId) # StateOf(hass, entityId))

\* C20: a new snapshot with no tracked entity changed causes no update and no
\* render; a new snapshot with a tracked entity changed causes an update.
C20_UpdateIffTrackedChanged == [][C20_Step]_vars

\* the lower-cased name the alarm pattern is built from: device_name, or
\* device_id when no (non-empty) name is given
PatternName ==
    ToLowerCase(IF "device_name" \in DOMAIN _config /\ _config["device_name"] # ""
                THEN _config["device_name"] ELSE _config["device_id"])

\* the identifiers of the snapshot that match the alarm pattern
PatternMatches ==
    { id \in DOMAIN hass.states :
        StartsWith(id, "time." \o PatternName \o "_") /\ EndsWith(id, "_time") }

\* C18: when resolution has run, the alarm list holds exactly the snapshot's
\* identifiers that start with 'time.' + lower-cased name + '_' and end with
\* '_time', each once; with no match the list is empty and the alarm section
\* renders nothing.
C18_AlarmListIsPatternMatch ==
    /\ (ResolutionRan /\ hass # Undefined /\ _config # Undefined) =>
           /\ { _entities.alarms[k] : k \in 1..Len(_entities.alarms) } = PatternMatches
           /\ Len(_entities.alarms) = Cardinality(PatternMatches)
    /\ (JustRendered /\ lastOp.ids.alarms = << >>) => rendered.alarmClocks = Nothing

\* C18 witness: the name 'A' selects the alarms named a, of several time entities
C18_Witness ==
    /\ ResolutionRan /\ hass # Undefined /\ _config # Undefined
    /\ "device_name" \in DOMAIN _config /\ _config["device_name"] = "A"
    /\ DOMAIN hass.states = ScanIds
    /\ _entities.alarms = <<Alarm1, Alarm2, "time.a_time">>

\* the new snapshot differs from the previous one in the state object of
\* entityId and in nothing else
DiffersOnlyIn(entityId) ==
    /\ StateOf(oldHass, entityId) # StateOf(hass, entityId)
    /\ \A other \in (DOMAIN oldHass.states \cup DOMAIN hass.states) \ {entityId} :
           StateOf(oldHass, other) = StateOf(hass, other)

\* C21, in a step: when the new snapshot differs from the previous one only in
\* the state object of an alarm of the resolved list, the update renders and
\* the alarm's row shows the new state.
C21_Step ==
    \A k \in 1..Len(_entities.alarms) :
        ( /\ SnapshotPending
          /\ _entities.alarms[k] \in DOMAIN hass.states
          /\ hass.states[_entities.alarms[k]].state # "unavailable"
          /\ DiffersOnlyIn(_entities.alarms[k])
          /\ lastOp'.op = "update" ) =>
            /\ lastOp'.rendered
            /\ rendered'.alarmClocks # Nothing
            /\ rendered'.alarmClocks.rows[k] # Nothing
            /\ rendered'.alarmClocks.rows[k].time = hass.states[_entities.alarms[k]].state

\* C21: the alarms of the resolved alarm list are tracked: a snapshot that
\* changes only such an alarm makes the card update and show the new state.
C21_AlarmChangeUpdatesRow == [][C21_Step]_vars

\* the percentage the claim gives the light: the nearest percentage of the
\* brightness attribute, 50 when the attribute is absent or 0
ToggleExpected(light, p) ==
    IF "brightness" \in DOMAIN light.attributes /\ light.attributes["brightness"] # 0
    THEN NearestPercent(p, light.attributes["brightness"])
    ELSE p = 50

\* C22: a click on the toggle of a light that is on issues light.turn_off; of
\* a light that is not on it issues light.turn_on, never turn_off, with
\* brightness_pct the displayed percentage: round(b/255*100) for brightness b,
\* 50 when the attribute is absent or 0.
C22_ToggleTurnsOnWhenOff ==
    (lastOp.op = "toggleClick" /\ _entities.light = LightA) =>
        LET light == hass.states[LightA]
        IN  /\ Len(calls) = 1
            /\ calls[1].domain = "light"
            /\ calls[1].data["entity_id"] = LightA
            /\ IF light.state = "on" THEN calls[1].service = "turn_off"
               ELSE /\ calls[1].service = "turn_on"
                    /\ ToggleExpected(light, calls[1].data["brightness_pct"])
                    /\ rendered.lightControls.value
                           = ToString(calls[1].data["brightness_pct"])

\* C23: every render that produces output uses the six templates of the
\* current configuration's device_id, never the initial null identifiers,
\* whichever of the configuration and the first snapshot came first.
C23_RenderUsesResolvedIds ==
    JustRendered => SixIds(lastOp.ids) = DocumentedIds[_config["device_id"]]

\* the card on screen was rendered with these identifiers: its temperature
\* section, which every render with show_temperature_graph produces, targets
\* their temperature sensor
RenderedWith(ids) ==
    /\ rendered # Nothing
    /\ rendered.temperature # Nothing
    /\ rendered.temperature.moreInfo = ids.temperature

\* C24: once a valid configuration and a snapshot have both been supplied, in
\* either order, the card eventually has the templates of the configured
\* device_id as identifiers and is rendered with them, provided every
\* requested update runs.
C24_EventuallyRenderedResolved ==
    (hass # Undefined /\ _config # Undefined) ~>
        (/\ _config # Undefined
         /\ SixIds(_entities) = DocumentedIds[_config["device_id"]]
         /\ RenderedWith(_entities))

\* a step in which setConfig threw
C25_Step ==
    (lastOp'.op = "setConfig" /\ lastOp'.threw) =>
        /\ NoDeviceId(lastOp'.supplied)
        /\ _config' = _config
        /\ _entities' = _entities
        /\ hass' = hass
        /\ rendered' = rendered
        /\ changedProps' = changedProps /\ pending' = pending

\* a render that follows a rejected setConfig shows the card of the stored
\* configuration
C25_NextRender ==
    (lastOp.op = "setConfig" /\ lastOp.threw /\ _config # Undefined /\ hass # Undefined
        /\ lastOp'.op = "update" /\ lastOp'.rendered) =>
        /\ _config' = _config
        /\ rendered' # Nothing
        /\ rendered'.header.title = "en:common.remi " \o
               (IF "device_name" \in DOMAIN _config /\ _config["device_name"] # ""
                THEN _config["device_name"] ELSE _config["device_id"])

\* C25: a setConfig call that throws (device_id missing or empty) changes
\* nothing: the stored configuration, the identifiers and the alarm list are
\* what they were, and the card keeps rendering from them.
C25_RejectedConfigChangesNothing == [][C25_Step /\ C25_NextRender]_vars

\* C25 witness: device a with an alarm is on screen and a configuration
\* without device_id has just been rejected
C25_Witness ==
    /\ lastOp.op = "setConfig" /\ lastOp.threw
    /\ lastOp.supplied = << >>
    /\ _config # Undefined /\ _config["device_id"] = "a"
    /\ _entities.alarms = <<Alarm1>>
    /\ rendered # Nothing /\ rendered.alarmClocks # Nothing

\* the entity a call of this domain must address for device X
CallTarget(domain, deviceId) ==
    IF domain = "light" THEN "light.remi_" \o deviceId \o "_night_light"
    ELSE "select.remi_" \o deviceId \o "_face"

\* C26: every outbound call addresses the entity derived from the device_id
\* of the configuration current at the moment of the call
\* (light.remi_X_night_light for light calls, select.remi_X_face for face
\* calls), and no call is issued while the identifiers are unresolved.
C26_CallsAddressCurrentDevice ==
    \A i \in 1..Len(calls) :
        /\ _config # Undefined
        /\ calls[i].domain \in {"light", "select"}
        /\ calls[i].data["entity_id"] = CallTarget(calls[i].domain, _config["device_id"])
        /\ _entities.light # Null /\ _entities.faceSelect # Null

\* C26 witness: a face option was clicked while device b is configured
C26_Witness ==
    /\ lastOp.op = "faceClick"
    /\ Len(calls) = 1
    /\ calls[1].domain = "select"
    /\ _config["device_id"] = "b"
    /\ calls[1].data["entity_id"] = "select.remi_b_face"

\* the user emptied the Device ID field of the rendered form
DeviceIdEmptied ==
    /\ lastOp.op = "valueChanged"
    /\ lastOp.form
    /\ lastOp.target = TextField("device_id", "")

\* C27: the editor validates nothing: emptying the Device ID field still
\* emits a 'config-changed' event, whose configuration has device_id "";
\* the card's setConfig is the only check, and it rejects that configuration
\* by throwing.
C27_EmptyDeviceIdEmittedThenRejected ==
    /\ DeviceIdEmptied =>
           /\ Len(events) = 1
           /\ events[1].type = "config-changed"
           /\ events[1].detail.config["device_id"] = ""
    /\ (lastOp.op = "setConfig" /\ "device_id" \in DOMAIN lastOp.supplied) =>
           (lastOp.threw <=> lastOp.supplied["device_id"] = "")

\* C27 witness: the card was handed an editor configuration (it carries the
\* editor's type field) with an empty device_id, and threw
C27_Witness ==
    /\ lastOp.op = "setConfig" /\ lastOp.threw
    /\ "type" \in DOMAIN lastOp.supplied
    /\ "device_id" \in DOMAIN lastOp.supplied
    /\ lastOp.supplied["device_id"] = ""

\* a step of _valueChanged
C28_Step ==
    /\ lastOp'.op = "valueChanged" =>
           /\ editor' = editor
           /\ (\/ editor._config = Undefined
               \/ editor.hass = Undefined
               \/ "configValue" \notin DOMAIN lastOp'.target) => events' = << >>
    /\ editor'._config # editor._config => lastOp'.op = "editorSetConfig"

\* C28: _valueChanged never modifies the editor's stored configuration, which
\* changes only through setConfig, and it emits no event when the editor has
\* no configuration, has no snapshot, or the control carries no configValue.
C28_ValueChangedKeepsConfig == [][C28_Step]_vars

\* C28 witness: with configuration and snapshot present, an event of a control
\* without configValue arrived and nothing was emitted
C28_Witness ==
    /\ lastOp.op = "valueChanged"
    /\ lastOp.target = PlainInput("x")
    /\ editor._config # Undefined /\ editor.hass # Undefined
    /\ events = << >>

\* C29: whenever the alarm section is rendered (title and container), at
\* least one alarm row is rendered in it: a list whose alarms are all absent
\* from the snapshot or 'unavailable' renders no section.
C29_AlarmSectionHasRow ==
    (rendered # Nothing /\ rendered.alarmClocks # Nothing) =>
        \E k \in DOMAIN rendered.alarmClocks.rows : rendered.alarmClocks.rows[k] # Nothing

====
